---- MODULE Spec2Model ----
(***************************************************************************)
(* Sign-and-send flows of the Telegram trading bot (src/index.ts), the     *)
(* liquidity service (src/meteora.ts) and the CLI demo (src/mete-privy.ts).*)
(*                                                                         *)
(* One command handler runs at a time.  Every `await` of a handler is one  *)
(* action; the external collaborators (transaction builder, broadcaster,   *)
(* remote signer) answer nondeterministically.  Transactions are modelled  *)
(* with the structure @solana/web3.js gives them: a legacy Transaction     *)
(* keeps feePayer / recentBlockhash / instructions and is compiled when it *)
(* is signed or serialized; a VersionedTransaction holds a compiled        *)
(* message (header, static account keys, compiled instructions).           *)
(* Sequences are 1-based: index i here is index i-1 in the source.         *)
(***************************************************************************)
EXTENDS Integers, Sequences, FiniteSets, TLC

\* ------------------------------------------------------------------ bounds
MaxInstr == 4        \* most instructions in one builder template
MinKeys == 2         \* fewest static account keys of a versioned template
MaxKeys == 4         \* most static account keys of a versioned template
MaxTemplates == 2    \* most templates in an array returned by the builder
MaxTip == 3          \* the chain's blockhash counter stops advancing here
MaxWords == 3        \* most words after the command name in a message

\* --------------------------------------------------------------- accounts
Wallet == "wallet"        \* address of the custodial wallet (remote signer)
Position == "position"    \* public key of the position keypair (co-signer)
Position2 == "position2"  \* public key of another generated position keypair
Program == "program"      \* the DLMM program id
NoKey == "null"           \* an unset public key
Stranger == "stranger"    \* a fee payer that is not the user's wallet
Fillers == <<"lbPair", "binArrayLower", "binArrayUpper", "reserveX", "reserveY", "oracle">>
ReadonlyAccount == "tokenProgram"   \* an account the instructions only read
AccountOrder == <<Wallet, Position, Position2>> \o Fillers \o <<ReadonlyAccount, Program>>

\* ------------------------------------------------------------- sequences
IndexOf(seq, x) == CHOOSE i \in 1..Len(seq) : seq[i] = x

Range(seq) == {seq[i] : i \in 1..Len(seq)}

Min(a, b) == IF a < b THEN a ELSE b

\* ------------------------------------------------------- message compile
\* Account metas of every instruction, flattened to a set of public keys.
SignerKeysOf(instructions) ==
  UNION {{instructions[i].keys[j].pubkey : j \in {j \in 1..Len(instructions[i].keys) :
                                                   instructions[i].keys[j].isSigner}}
         : i \in 1..Len(instructions)}

AllKeysOf(instructions) ==
  UNION {{instructions[i].keys[j].pubkey : j \in 1..Len(instructions[i].keys)}
           \cup {instructions[i].programId}
         : i \in 1..Len(instructions)}

WritableKeysOf(instructions) ==
  UNION {{instructions[i].keys[j].pubkey : j \in {j \in 1..Len(instructions[i].keys) :
                                                   instructions[i].keys[j].isWritable}}
         : i \in 1..Len(instructions)}

\* Message.compile / TransactionMessage.compileToV0Message: the payer comes
\* first, then the other required signers (writable before read-only), then
\* the accounts that do not sign (writable before read-only); the header
\* counts them; every instruction is re-addressed against that key table.
CompileMessage(version, payerKey, recentBlockhash, instructions) ==
  LET signers == SignerKeysOf(instructions) \ {payerKey}
      others == AllKeysOf(instructions) \ (signers \cup {payerKey})
      writable == WritableKeysOf(instructions)
      keys == <<payerKey>>
                \o SelectSeq(AccountOrder, LAMBDA a : a \in signers \cap writable)
                \o SelectSeq(AccountOrder, LAMBDA a : a \in signers \ writable)
                \o SelectSeq(AccountOrder, LAMBDA a : a \in others \cap writable)
                \o SelectSeq(AccountOrder, LAMBDA a : a \in others \ writable)
  IN [version |-> version,
      numRequiredSignatures |-> 1 + Cardinality(signers),
      numReadonlySignedAccounts |-> Cardinality(signers \ writable),
      numReadonlyUnsignedAccounts |-> Cardinality(others \ writable),
      staticAccountKeys |-> keys,
      recentBlockhash |-> recentBlockhash,
      compiledInstructions |->
        [i \in 1..Len(instructions) |->
          [programIdIndex |-> IndexOf(keys, instructions[i].programId),
           accountKeyIndexes |-> [j \in 1..Len(instructions[i].keys) |->
                                    IndexOf(keys, instructions[i].keys[j].pubkey)],
           data |-> instructions[i].data]]]

EmptyMessage ==
  [version |-> "none", numRequiredSignatures |-> 0, numReadonlySignedAccounts |-> 0,
   numReadonlyUnsignedAccounts |-> 0, staticAccountKeys |-> <<>>,
   recentBlockhash |-> 0, compiledInstructions |-> <<>>]

\* Message.isAccountSigner(index) and Message.isAccountWritable(index).
IsSignerIndex(message, i) == i <= message.numRequiredSignatures

IsWritableIndex(message, i) ==
  IF i <= message.numRequiredSignatures
    THEN i <= message.numRequiredSignatures - message.numReadonlySignedAccounts
    ELSE i <= Len(message.staticAccountKeys) - message.numReadonlyUnsignedAccounts

\* ------------------------------------------------------------ signatures
\* What a signature commits to: the whole serialized message.
Digest(message) ==
  <<message.version, message.numRequiredSignatures, message.staticAccountKeys,
    message.recentBlockhash, message.compiledInstructions,
    message.numReadonlySignedAccounts, message.numReadonlyUnsignedAccounts>>

SignatureOf(key, message) == [signer |-> key, over |-> Digest(message)]

ZeroSignature == [signer |-> NoKey, over |-> <<>>]

ValidSignature(sig, key, message) ==
  sig.signer = key /\ sig.over = Digest(message)

\* ---------------------------------------------------- transaction objects
\* One record type for everything a builder can hand back.  kind is the
\* JavaScript type: "Transaction" (legacy), "VersionedTransaction", "string"
\* (already serialized to base64) or "object" (anything else).
NoTx ==
  [kind |-> "none", feePayer |-> NoKey, recentBlockhash |-> 0, instructions |-> <<>>,
   message |-> EmptyMessage, signatures |-> <<>>]

ZeroSignatures(n) == [i \in 1..n |-> ZeroSignature]

\* new VersionedTransaction(message): one empty signature per required signer.
NewVersionedTransaction(message) ==
  [kind |-> "VersionedTransaction", feePayer |-> NoKey, recentBlockhash |-> 0,
   instructions |-> <<>>, message |-> message,
   signatures |-> ZeroSignatures(message.numRequiredSignatures)]

\* The message a transaction object stands for: a legacy Transaction compiles
\* it from its fields each time, a VersionedTransaction carries it.
MessageOf(tx) ==
  IF tx.kind = "Transaction"
    THEN CompileMessage("legacy", tx.feePayer, tx.recentBlockhash, tx.instructions)
    ELSE tx.message

RequiredSigners(tx) ==
  SubSeq(MessageOf(tx).staticAccountKeys, 1, MessageOf(tx).numRequiredSignatures)

\* The keys whose signature over the transaction's current message is present.
SignedBy(tx) ==
  {RequiredSigners(tx)[i] : i \in {i \in 1..Min(Len(tx.signatures), Len(RequiredSigners(tx))) :
      ValidSignature(tx.signatures[i], RequiredSigners(tx)[i], MessageOf(tx))}}

FullySigned(tx) == SignedBy(tx) = Range(RequiredSigners(tx))

\* Signature slots of a transaction, padded to its required signers.
SlotsOf(tx) ==
  [i \in 1..Len(RequiredSigners(tx)) |->
     IF i <= Len(tx.signatures) THEN tx.signatures[i] ELSE ZeroSignature]

WithSignature(tx, key) ==
  [tx EXCEPT !.signatures =
     [i \in 1..Len(RequiredSigners(tx)) |->
        IF RequiredSigners(tx)[i] = key THEN SignatureOf(key, MessageOf(tx))
        ELSE SlotsOf(tx)[i]]]

\* Transaction.partialSign(keypair) and VersionedTransaction.sign([keypair]):
\* both throw when the key is not a required signer of the message
\* ("unknown signer" / "Cannot sign with non signer key").
CanSign(tx, key) == key \in Range(RequiredSigners(tx))

\* Wire form: the signature slots followed by the serialized message.
WireOf(tx) ==
  <<SlotsOf(tx), MessageOf(tx).version, MessageOf(tx).numRequiredSignatures,
    MessageOf(tx).staticAccountKeys, MessageOf(tx).recentBlockhash,
    MessageOf(tx).compiledInstructions,
    MessageOf(tx).numReadonlySignedAccounts, MessageOf(tx).numReadonlyUnsignedAccounts>>

\* Transaction.serialize() is called without a config, so requireAllSignatures
\* and verifySignatures are on: it throws unless every required signer has a
\* valid signature.  VersionedTransaction.serialize() never checks.
CanSerialize(tx) ==
  /\ tx.kind \in {"Transaction", "VersionedTransaction"}
  /\ tx.kind = "Transaction" => FullySigned(tx)

\* Mutant of Deserialize: the signature slots of the payload are not read
\* back, the transaction comes out with empty slots.
DeserializeUnsigned(wire) ==
  [kind |-> "VersionedTransaction", feePayer |-> NoKey, recentBlockhash |-> 0,
   instructions |-> <<>>,
   message |-> [version |-> wire[2], numRequiredSignatures |-> wire[3],
                numReadonlySignedAccounts |-> wire[7],
                numReadonlyUnsignedAccounts |-> wire[8],
                staticAccountKeys |-> wire[4], recentBlockhash |-> wire[5],
                compiledInstructions |-> wire[6]],
   signatures |-> ZeroSignatures(wire[3])]

\* VersionedTransaction.deserialize(bytes): reads legacy and v0 wire forms.
Deserialize(wire) ==
  [kind |-> "VersionedTransaction", feePayer |-> NoKey, recentBlockhash |-> 0,
   instructions |-> <<>>,
   message |-> [version |-> wire[2], numRequiredSignatures |-> wire[3],
                numReadonlySignedAccounts |-> wire[7],
                numReadonlyUnsignedAccounts |-> wire[8],
                staticAccountKeys |-> wire[4], recentBlockhash |-> wire[5],
                compiledInstructions |-> wire[6]],
   signatures |-> wire[1]]

BlockhashOf(tx) == MessageOf(tx).recentBlockhash

\* ------------------------------------------------------ builder templates
Retention == 1   \* a blockhash is accepted while at most this far behind the tip

CreateFlows == {"balance", "imbalance", "one-side"}
Flows == CreateFlows \cup {"removeliquidity", "addliquidity", "cli-removeLiquidity"}
\* The flows that go through the fetch / rebuild path.
RebuildFlows == {"balance", "cli-removeLiquidity"}
\* The flows whose builder is asked for an array of transactions.
ArrayFlows == Flows \ {"addliquidity"}

Shapes == {"VersionedTransaction", "Transaction", "string", "object"}

\* The fee payers a template of a shape can arrive with: `user` as the SDK
\* sets it, none, or some other key.
TemplatePayers(shape) ==
  IF shape = "Transaction" THEN {Wallet, NoKey, Stranger} ELSE {Wallet}

\* The accounts an instruction of the flow touches, the program excluded:
\* the signers, then writable accounts, then (when k leaves room for it) one
\* account that is only read.
TemplateAccounts(coSigned, k) ==
  LET others == k - 1 - (IF coSigned THEN 2 ELSE 1)
  IN <<Wallet>> \o (IF coSigned THEN <<Position>> ELSE <<>>)
                \o SubSeq(Fillers, 1, others - 1)
                \o (IF others >= 1 THEN <<ReadonlyAccount>> ELSE <<>>)

\* A template as DLMM's initializePositionAndAddLiquidityByStrategy /
\* removeLiquidity / addLiquidityByStrategy returns it: n instructions, for
\* the versioned shape k static account keys, the builder's own blockhash h,
\* no signature.  t numbers the template in its array.  A legacy template
\* carries the fee payer the builder set, if any.
BuilderTemplate(shape, coSigned, n, k, h, t, payer) ==
  LET accounts == TemplateAccounts(coSigned, k)
      signers == IF coSigned THEN {Wallet, Position} ELSE {Wallet}
      instructions ==
        [i \in 1..n |->
           [programId |-> Program,
            keys |-> [j \in 1..Len(accounts) |->
                        [pubkey |-> accounts[j], isSigner |-> accounts[j] \in signers,
                         isWritable |-> accounts[j] # ReadonlyAccount]],
            data |-> <<t, i>>]]
  IN CASE shape = "Transaction" ->
            [NoTx EXCEPT !.kind = shape, !.feePayer = payer, !.recentBlockhash = h,
                         !.instructions = instructions]
       [] shape = "VersionedTransaction" ->
            NewVersionedTransaction(
              [version |-> "v0",
               numRequiredSignatures |-> Cardinality(signers),
               numReadonlySignedAccounts |-> 0,
               numReadonlyUnsignedAccounts |->
                 1 + Cardinality(Range(accounts) \cap {ReadonlyAccount}),
               staticAccountKeys |-> accounts \o <<Program>>,
               recentBlockhash |-> h,
               compiledInstructions |->
                 [i \in 1..n |-> [programIdIndex |-> k,
                                  accountKeyIndexes |-> [j \in 1..(k - 1) |-> j],
                                  data |-> <<t, i>>]]])
       [] OTHER -> [NoTx EXCEPT !.kind = shape]

\* The (program id, payload) pairs of a compiled message, in order.
ProgramsAndData(message) ==
  [i \in 1..Len(message.compiledInstructions) |->
     <<message.staticAccountKeys[message.compiledInstructions[i].programIdIndex],
       message.compiledInstructions[i].data>>]

\* ------------------------------------------------------------------ state
VARIABLE chainTip  \* the broadcaster's latest blockhash (a counter)
VARIABLE flow  \* the command being handled
VARIABLE pc  \* the await the handler is suspended at
VARIABLE builderResult  \* what the SDK builder returned, as a sequence
VARIABLE txs  \* the templates the handler goes on to process
VARIABLE txIndex  \* the template of txs being processed
VARIABLE blockhash  \* `blockhash` fetched for the current template, 0 if none
VARIABLE finalTransaction  \* `finalTransaction`, what is handed to the remote signer
VARIABLE signedTransaction  \* `signedTransaction`, what the remote signer returned
VARIABLE signedTx  \* `signedTx`, the deserialized and re-signed transaction
VARIABLE trace  \* the steps taken so far, in order
VARIABLE sent  \* the sendRawTransaction calls made, in order
VARIABLE replies  \* what the caller was told: bot messages / return or throw
VARIABLE ops  \* the locals of each /createposition handler running side by side
VARIABLE file  \* wallet-mappings.json: the walletId stored for each Telegram user
VARIABLE handlers  \* the locals of each bot handler suspended at an await
VARIABLE log  \* external calls made and replies sent by the bot handlers, in order
VARIABLE saves  \* the saveUserWallet calls made: the file before and after
VARIABLE created  \* the users createWallet has made a wallet for, in order
VARIABLE cmd  \* the text command being validated and its handler's position

vars == <<chainTip, flow, pc, builderResult, txs, txIndex, blockhash, finalTransaction,
          signedTransaction, signedTx, trace, sent, replies, ops,
          file, handlers, log, saves, created, cmd>>

botVars == <<file, handlers, log, saves, created, cmd>>

locals == <<blockhash, finalTransaction, signedTransaction, signedTx>>

Event(call, ok, hash) == [call |-> call, template |-> txIndex, ok |-> ok, blockhash |-> hash]

\* Mutant of Fail: the exception is caught and dropped, the command ends and
\* the caller is told nothing.
FailSwallowed(message) ==
  /\ UNCHANGED replies
  /\ pc' = "done"

\* The catch block of a handler (bot.sendMessage with the error message), or
\* the rethrow of the CLI function: the command ends with an error outcome.
Fail(message) ==
  /\ replies' = Append(replies, [kind |-> "error", text |-> message])
  /\ pc' = "done"

Succeed ==
  /\ replies' = Append(replies, [kind |-> "success", text |-> "ok"])
  /\ pc' = "done"

\* Handlers that can be suspended at an await at the same time.
Ops == {1, 2}

\* The locals of a /createposition handler (balance case) before it starts.
IdleOp ==
  [pc |-> "idle", keypair |-> NoKey, transaction |-> NoTx, blockhash |-> 0,
   finalTransaction |-> NoTx, signedTransaction |-> NoTx, signedTx |-> NoTx,
   sent |-> <<>>, reply |-> "none"]

\* Telegram users, and the bot handlers that can be in flight together.
Users == {"alice", "bob"}

Handlers == {1, 2}

NoWallet == "none"   \* `userWallets[userId]` of a user the file has no entry for

\* What getAllUserWallets returns when the file is missing or unreadable.
EmptyMappings == [u \in Users |-> NoWallet]

\* A handler slot no command has arrived for.
IdleHandler ==
  [command |-> "none", user |-> "none", pc |-> "idle", userWallets |-> EmptyMappings,
   walletId |-> NoWallet, walletAddress |-> ""]

\* No text command is being handled.
IdleCmd ==
  [name |-> "none", user |-> "none", match |-> <<>>, pc |-> "idle", check |-> 1,
   userWallets |-> EmptyMappings, solBalance |-> 0, signed |-> FALSE]

\* The sign-and-send handlers before any command.
AssemblerIdle ==
  /\ ops = [o \in Ops |-> IdleOp]
  /\ chainTip = 1
  /\ flow = "none"
  /\ pc = "idle"
  /\ builderResult = <<>>
  /\ txs = <<>>
  /\ txIndex = 1
  /\ blockhash = 0
  /\ finalTransaction = NoTx
  /\ signedTransaction = NoTx
  /\ signedTx = NoTx
  /\ trace = <<>>
  /\ sent = <<>>
  /\ replies = <<>>

\* The bot before any command, with nothing logged.
BotIdle ==
  /\ handlers = [h \in Handlers |-> IdleHandler]
  /\ log = <<>>
  /\ saves = <<>>
  /\ created = <<>>
  /\ cmd = IdleCmd

Init ==
  /\ AssemblerIdle
  /\ BotIdle
  /\ file = EmptyMappings

\* A new block: the broadcaster's latest blockhash moves on while a handler
\* is suspended.
Tick ==
  /\ pc \notin {"idle", "done"}
  /\ chainTip < MaxTip
  /\ chainTip' = chainTip + 1
  /\ UNCHANGED <<flow, pc, builderResult, txs, txIndex, locals, trace, sent, replies>>
  /\ UNCHANGED <<ops, botVars>>

\* A command arrives and passes the handler's checks; the handler awaits the
\* builder.
Command ==
  /\ pc = "idle"
  /\ \E f \in Flows : flow' = f
  /\ pc' = "build"
  /\ UNCHANGED <<chainTip, builderResult, txs, txIndex, locals, trace, sent, replies>>
  /\ UNCHANGED <<ops, botVars>>

\* Where a flow goes for each template: the fetch / rebuild path starts with
\* getLatestBlockhash, the others hand the template straight to the signer.
FirstStep(f) == IF f \in RebuildFlows THEN "fetch" ELSE "sign"

\* `Array.isArray(tx) ? tx[0] : tx` in the create* methods of MeteoraService
\* (and again in the handler); `Array.isArray(txs) ? txs : [txs]` in
\* removeLiquidity.
SelectTemplates(f, result) == IF f \in CreateFlows THEN <<result[1]>> ELSE result

\* The builder answers: an array of 1..MaxTemplates templates (one template
\* when the builder returns a single object), all of one shape.
BuilderReturns ==
  /\ pc = "build"
  /\ \E shape \in Shapes, n \in 1..MaxInstr, h \in 0..chainTip,
        len \in 1..(IF flow \in ArrayFlows THEN MaxTemplates ELSE 1) :
       \E k \in (IF shape = "VersionedTransaction" THEN MinKeys..MaxKeys ELSE {MaxKeys}),
          payer \in TemplatePayers(shape) :
         /\ k >= (IF flow \in CreateFlows THEN 3 ELSE 2)
         /\ builderResult' =
              [t \in 1..len |->
                 BuilderTemplate(shape, flow \in CreateFlows, n, k, h, t, payer)]
  /\ txs' = SelectTemplates(flow, builderResult')
  /\ txIndex' = 1
  /\ pc' = FirstStep(flow)
  /\ UNCHANGED <<chainTip, flow, locals, trace, sent, replies>>
  /\ UNCHANGED <<ops, botVars>>

\* The builder throws (pool not found, RPC error, ...).
BuilderFails ==
  /\ pc = "build"
  /\ Fail("builder error")
  /\ UNCHANGED <<chainTip, flow, builderResult, txs, txIndex, locals, trace, sent>>
  /\ UNCHANGED <<ops, botVars>>

\* ------------------------------------------------ fetch / rebuild / co-sign
\* Mutant of FetchFailed: the rejected fetch is swallowed and the handler
\* carries on with an undefined blockhash.
FetchFailedIgnored ==
  /\ pc' = "assemble"
  /\ UNCHANGED <<txIndex, locals, replies>>

\* `await getLatestBlockhash('finalized')` rejects: the exception leaves the
\* try block, nothing after it in the handler runs.
FetchFailed ==
  /\ Fail("getLatestBlockhash failed")
  /\ UNCHANGED <<txIndex, locals>>

FetchBlockhash ==
  /\ pc = "fetch"
  /\ \/ /\ blockhash' = chainTip
        /\ trace' = Append(trace, Event("getLatestBlockhash", TRUE, chainTip))
        /\ pc' = "assemble"
        /\ UNCHANGED <<txIndex, finalTransaction, signedTransaction, signedTx, replies>>
     \/ /\ trace' = Append(trace, Event("getLatestBlockhash", FALSE, 0))
        /\ FetchFailed
  /\ UNCHANGED <<chainTip, flow, builderResult, txs, sent>>
  /\ UNCHANGED <<ops, botVars>>

\* `staticAccountKeys.map((_, idx) => compiledInstructions[idx])`, then the
\* read of ix.programIdIndex: one entry per static account key, and a
\* TypeError as soon as an index has no compiled instruction.
CanExtract(message) ==
  Len(message.staticAccountKeys) <= Len(message.compiledInstructions)

ExtractInstructions(message) ==
  [idx \in 1..Len(message.staticAccountKeys) |-> message.compiledInstructions[idx]]

\* The TransactionInstruction list handed to TransactionMessage.
RebuildInstructions(message, extracted) ==
  [i \in 1..Len(extracted) |->
     [programId |-> message.staticAccountKeys[extracted[i].programIdIndex],
      keys |-> [j \in 1..Len(extracted[i].accountKeyIndexes) |->
                  [pubkey |-> message.staticAccountKeys[extracted[i].accountKeyIndexes[j]],
                   isSigner |-> FALSE,
                   isWritable |-> TRUE]],
      data |-> extracted[i].data]]

RebuildVersioned(transaction, payerKey, recentBlockhash) ==
  NewVersionedTransaction(
    CompileMessage("v0", payerKey, recentBlockhash,
                   RebuildInstructions(transaction.message,
                                       ExtractInstructions(transaction.message))))

\* `transaction.recentBlockhash = blockhash; transaction.feePayer ||= ...`
RefreshLegacy(transaction, payerKey, recentBlockhash) ==
  [transaction EXCEPT !.recentBlockhash = recentBlockhash,
                      !.feePayer = IF @ = NoKey THEN payerKey ELSE @]

\* After the rebuild the balance case signs with the position keypair; the
\* CLI's signAndSendTransaction has no keypair to sign with.
AfterAssemble(f) == IF f \in CreateFlows THEN "cosign" ELSE "sign"

UnknownShapeError(f, kind) ==
  IF f \in CreateFlows /\ kind = "string"
    THEN "Transaction already serialized to base64 by Meteora SDK"
    ELSE "Unknown transaction type"

\* Mutant of RejectShape: no branch for the unrecognised shapes, the template
\* goes on to the signer as it is.
RejectShapeMissing(transaction) ==
  /\ finalTransaction' = transaction
  /\ pc' = AfterAssemble(flow)
  /\ UNCHANGED <<trace, replies>>

\* The last two branches of the shape detection: `throw new Error(...)`.
RejectShape(transaction) ==
  /\ trace' = Append(trace, Event("detectShape", FALSE, blockhash))
  /\ Fail(UnknownShapeError(flow, transaction.kind))
  /\ UNCHANGED finalTransaction

Assemble ==
  /\ pc = "assemble"
  /\ LET transaction == txs[txIndex] IN
       CASE transaction.kind = "VersionedTransaction" /\ CanExtract(transaction.message) ->
              /\ finalTransaction' = RebuildVersioned(transaction, Wallet, blockhash)
              /\ trace' = Append(trace, Event("rebuild", TRUE, blockhash))
              /\ pc' = AfterAssemble(flow)
              /\ UNCHANGED replies
         [] transaction.kind = "VersionedTransaction" /\ ~CanExtract(transaction.message) ->
              /\ trace' = Append(trace, Event("rebuild", FALSE, blockhash))
              /\ Fail("TypeError: Cannot read properties of undefined")
              /\ UNCHANGED finalTransaction
         [] transaction.kind = "Transaction" ->
              /\ finalTransaction' = RefreshLegacy(transaction, Wallet, blockhash)
              /\ trace' = Append(trace, Event("rebuild", TRUE, blockhash))
              /\ pc' = AfterAssemble(flow)
              /\ UNCHANGED replies
         [] OTHER -> RejectShape(transaction)
  /\ UNCHANGED <<chainTip, flow, builderResult, txs, txIndex, blockhash,
                 signedTransaction, signedTx, sent>>
  /\ UNCHANGED <<ops, botVars>>

\* `finalTransaction.sign([balanceKeypair])` / `transaction.partialSign(...)`.
CoSign ==
  /\ pc = "cosign"
  /\ IF CanSign(finalTransaction, Position)
       THEN /\ finalTransaction' = WithSignature(finalTransaction, Position)
            /\ trace' = Append(trace, Event("localSign", TRUE, BlockhashOf(finalTransaction)))
            /\ pc' = "sign"
            /\ UNCHANGED replies
       ELSE /\ trace' = Append(trace, Event("localSign", FALSE, BlockhashOf(finalTransaction)))
            /\ Fail("Cannot sign with non signer key")
            /\ UNCHANGED finalTransaction
  /\ UNCHANGED <<chainTip, flow, builderResult, txs, txIndex, blockhash,
                 signedTransaction, signedTx, sent>>
  /\ UNCHANGED <<ops, botVars>>

\* ------------------------------------------------------------ remote signer
\* What privy.walletApi.solana.signTransaction can answer.  The service signs
\* for the wallet; a lossy round trip returns the wallet's signature only; a
\* faulty service returns the payload as it got it.
SignerAnswers == {"signed", "lossy", "unsigned", "error"}

SignerResponse(tx, answer) ==
  CASE answer = "signed" -> WithSignature(tx, Wallet)
    [] answer = "lossy" ->
         WithSignature([tx EXCEPT !.signatures = ZeroSignatures(Len(RequiredSigners(tx)))],
                       Wallet)
    [] OTHER -> [tx EXCEPT !.signatures = SlotsOf(tx)]

\* What the handler passes as `transaction`: the rebuilt transaction on the
\* fetch / rebuild path, the builder's template everywhere else.
SignerInput == IF flow \in RebuildFlows THEN finalTransaction ELSE txs[txIndex]

AfterSign(f) == IF f \in CreateFlows THEN "resign" ELSE "send"

\* What the signer's client can turn into bytes: a transaction object, and
\* for a legacy Transaction one whose fee payer is set ("Transaction fee payer
\* required" otherwise).
Signable(tx) ==
  /\ tx.kind \in {"Transaction", "VersionedTransaction"}
  /\ tx.kind = "Transaction" => tx.feePayer # NoKey

\* Mutant of SignFailed: the signer's error is swallowed and the handler goes
\* on with the transaction it had.
SignFailedIgnored ==
  /\ signedTransaction' = SignerInput
  /\ pc' = AfterSign(flow)
  /\ UNCHANGED replies

\* `await privy.walletApi.solana.signTransaction(...)` rejects: the exception
\* reaches the catch block.
SignFailed ==
  /\ Fail("signTransaction failed")
  /\ UNCHANGED signedTransaction

RemoteSign ==
  /\ pc = "sign"
  /\ \E answer \in SignerAnswers :
       IF answer = "error" \/ ~Signable(SignerInput)
         THEN /\ trace' = Append(trace, Event("signTransaction", FALSE, 0))
              /\ SignFailed
         ELSE /\ trace' = Append(trace, Event("signTransaction", TRUE, BlockhashOf(SignerInput)))
              /\ signedTransaction' = SignerResponse(SignerInput, answer)
              /\ pc' = AfterSign(flow)
              /\ UNCHANGED replies
  /\ UNCHANGED <<chainTip, flow, builderResult, txs, txIndex, blockhash, finalTransaction,
                 signedTx, sent>>
  /\ UNCHANGED <<ops, botVars>>

\* `VersionedTransaction.deserialize(signedTransaction.serialize())` and
\* `signedTx.sign([keypair])` of the three /createposition cases.
ReSign ==
  /\ pc = "resign"
  /\ IF ~CanSerialize(signedTransaction)
       THEN /\ trace' = Append(trace, Event("serialize", FALSE, 0))
            /\ Fail("Signature verification failed")
            /\ UNCHANGED signedTx
       ELSE LET deserialized == Deserialize(WireOf(signedTransaction)) IN
         IF CanSign(deserialized, Position)
           THEN /\ signedTx' = WithSignature(deserialized, Position)
                /\ trace' = Append(trace, Event("localSign", TRUE, BlockhashOf(deserialized)))
                /\ pc' = "send"
                /\ UNCHANGED replies
           ELSE /\ trace' = Append(trace, Event("localSign", FALSE, BlockhashOf(deserialized)))
                /\ Fail("Cannot sign with non signer key")
                /\ UNCHANGED signedTx
  /\ UNCHANGED <<chainTip, flow, builderResult, txs, txIndex, blockhash, finalTransaction,
                 signedTransaction, sent>>
  /\ UNCHANGED <<ops, botVars>>

\* -------------------------------------------------------------- broadcaster
\* The node's answer to sendRawTransaction with preflight on: signatures are
\* verified first, then the blockhash's age, then the simulation.
Fresh(hash) == chainTip - hash <= Retention

\* With skipPreflight the node checks nothing before it forwards the payload
\* and hands back the transaction id.
BroadcasterAnswers(wire, options) ==
  IF options.skipPreflight THEN {"accepted"}
  ELSE IF ~FullySigned(Deserialize(wire)) THEN {"signature verification failure"}
  ELSE IF ~Fresh(BlockhashOf(Deserialize(wire))) THEN {"blockhash not found"}
  ELSE {"accepted", "simulation failed"}

\* Mutant of SendOptions: the creation flows and the CLI turn preflight off.
SendOptionsSkipPreflight(f) ==
  IF f \in CreateFlows \cup RebuildFlows
    THEN [skipPreflight |-> TRUE, preflightCommitment |-> "confirmed"]
    ELSE [skipPreflight |-> FALSE, preflightCommitment |-> "default"]

\* The second argument of sendRawTransaction: `{ skipPreflight: false,
\* preflightCommitment: 'confirmed' }` in the creation flows and the CLI,
\* nothing (the library's defaults) in the other handlers.
SendOptions(f) ==
  IF f \in CreateFlows \cup RebuildFlows
    THEN [skipPreflight |-> FALSE, preflightCommitment |-> "confirmed"]
    ELSE [skipPreflight |-> FALSE, preflightCommitment |-> "default"]

\* What reaches `.serialize()` in the send call.
Payload == IF flow \in CreateFlows THEN signedTx ELSE signedTransaction

\* Mutant of SendRejected: any rejection sends the handler back to the first
\* step of the template.
SendRejectedRetry(answer) ==
  /\ pc' = FirstStep(flow)
  /\ UNCHANGED <<txIndex, locals, replies>>

\* Mutant of SendRejected: a stale blockhash is answered by fetching a new
\* one and going through the template again; other rejections are reported.
SendRejectedRefresh(answer) ==
  IF answer = "blockhash not found"
    THEN /\ pc' = "fetch"
         /\ UNCHANGED <<txIndex, locals, replies>>
    ELSE /\ replies' = Append(replies, [kind |-> "error", text |-> answer])
         /\ pc' = "done"
         /\ UNCHANGED <<txIndex, locals>>

\* sendRawTransaction rejects: the exception reaches the handler's catch (the
\* CLI function's caller); nothing is retried.
SendRejected(answer) ==
  /\ Fail(answer)
  /\ UNCHANGED <<txIndex, locals>>

\* Mutant of SendAccepted: the accepted transaction is sent once more before
\* the handler moves on.
SendAcceptedTwice ==
  /\ pc' = IF Cardinality({i \in 1..Len(sent) : sent[i].template = txIndex}) < 1
             THEN "send" ELSE "done"
  /\ replies' = IF pc' = "done"
                  THEN Append(replies, [kind |-> "success", text |-> "ok"]) ELSE replies
  /\ UNCHANGED <<txIndex, locals>>

\* sendRawTransaction resolves: the loop over txs goes on to the next
\* template, or the handler reports success.
SendAccepted ==
  IF txIndex < Len(txs)
    THEN /\ txIndex' = txIndex + 1
         /\ pc' = FirstStep(flow)
         /\ blockhash' = 0
         /\ finalTransaction' = NoTx
         /\ signedTransaction' = NoTx
         /\ signedTx' = NoTx
         /\ UNCHANGED replies
    ELSE /\ Succeed
         /\ UNCHANGED <<txIndex, locals>>

Send ==
  /\ pc = "send"
  /\ IF ~CanSerialize(Payload)
       THEN /\ trace' = Append(trace, Event("serialize", FALSE, 0))
            /\ Fail("Signature verification failed")
            /\ UNCHANGED <<txIndex, locals, sent>>
       ELSE \E answer \in BroadcasterAnswers(WireOf(Payload), SendOptions(flow)) :
              /\ sent' = Append(sent, [template |-> txIndex, wire |-> WireOf(Payload),
                                       skipPreflight |-> SendOptions(flow).skipPreflight,
                                       answer |-> answer])
              /\ trace' = Append(trace, Event("sendRawTransaction", answer = "accepted",
                                              BlockhashOf(Payload)))
              /\ IF answer = "accepted" THEN SendAccepted ELSE SendRejected(answer)
  /\ UNCHANGED <<chainTip, flow, builderResult, txs>>
  /\ UNCHANGED <<ops, botVars>>

Next ==
  \/ Tick
  \/ Command
  \/ BuilderReturns
  \/ BuilderFails
  \/ FetchBlockhash
  \/ Assemble
  \/ CoSign
  \/ RemoteSign
  \/ ReSign
  \/ Send

Spec == Init /\ [][Next]_vars

\* ------------------------------------------- two handlers side by side
\* Two /createposition commands (balance case) whose handlers are suspended
\* at their awaits at the same time.  A handler runs from one await to the
\* next without interruption; its locals are the fields of ops[o].
PositionKeys == {Position, Position2}

\* Mutant of GenerateKeypair: the keypair is kept in a variable of the module
\* and generated only when that variable is empty.
GenerateKeypairCached(o) ==
  IF \E p \in Ops : ops[p].keypair # NoKey
    THEN {ops[p].keypair : p \in {p \in Ops : ops[p].keypair # NoKey}}
    ELSE PositionKeys

\* Keypair.generate(): a key nobody has generated before.
GenerateKeypair(o) == PositionKeys \ {ops[p].keypair : p \in Ops}

\* The builder is called with `positionPubKey: positionKeypair.publicKey`:
\* the template names that key wherever it names the position.
ForPositionKey(template, positionPubKey) ==
  LET sub(a) == IF a = Position THEN positionPubKey ELSE a
      instructions == template.instructions
      message == template.message
  IN [template EXCEPT
        !.instructions =
          [i \in 1..Len(instructions) |->
             [instructions[i] EXCEPT
                !.keys = [j \in 1..Len(instructions[i].keys) |->
                            [instructions[i].keys[j] EXCEPT
                               !.pubkey = sub(instructions[i].keys[j].pubkey)]]]],
        !.message =
          [message EXCEPT
             !.staticAccountKeys =
               [i \in 1..Len(message.staticAccountKeys) |-> sub(message.staticAccountKeys[i])]]]

OpsOnly ==
  UNCHANGED <<flow, pc, builderResult, txs, txIndex, locals, trace, sent, replies, botVars>>

OpFail(o) == ops' = [ops EXCEPT ![o].pc = "done", ![o].reply = "error"]

\* The command arrives: the handler generates the position keypair and calls
\* the builder.
OpStart(o) ==
  /\ ops[o].pc = "idle"
  /\ \E keypair \in GenerateKeypair(o) :
       ops' = [ops EXCEPT ![o].pc = "build", ![o].keypair = keypair]
  /\ UNCHANGED chainTip
  /\ OpsOnly

\* The builder answers (or throws); the handler asks for the latest blockhash.
\* The template carries a blockhash older than any the handlers fetch.
OpBuilt(o) ==
  /\ ops[o].pc = "build"
  /\ \/ \E shape \in Shapes :
          \E payer \in TemplatePayers(shape) :
            ops' = [ops EXCEPT
                      ![o].pc = "fetch",
                      ![o].transaction =
                        ForPositionKey(BuilderTemplate(shape, TRUE, MaxInstr, MaxKeys, 0, 1, payer),
                                       ops[o].keypair)]
     \/ OpFail(o)
  /\ UNCHANGED chainTip
  /\ OpsOnly

\* getLatestBlockhash answers (or throws); the handler detects the shape,
\* rebuilds or refreshes the template, signs with its keypair and calls the
\* remote signer.
OpFetched(o) ==
  /\ ops[o].pc = "fetch"
  /\ \/ LET transaction == ops[o].transaction
            assembled ==
              IF transaction.kind = "VersionedTransaction"
                THEN RebuildVersioned(transaction, Wallet, chainTip)
                ELSE RefreshLegacy(transaction, Wallet, chainTip)
        IN IF /\ transaction.kind \in {"Transaction", "VersionedTransaction"}
              /\ transaction.kind = "VersionedTransaction" => CanExtract(transaction.message)
              /\ CanSign(assembled, ops[o].keypair)
              /\ Signable(assembled)
             THEN ops' = [ops EXCEPT
                            ![o].pc = "sign",
                            ![o].blockhash = chainTip,
                            ![o].finalTransaction = WithSignature(assembled, ops[o].keypair)]
             ELSE ops' = [ops EXCEPT ![o].pc = "done", ![o].reply = "error",
                                     ![o].blockhash = chainTip]
     \/ OpFail(o)
  /\ UNCHANGED chainTip
  /\ OpsOnly

\* The remote signer answers (or fails); the handler serializes the answer,
\* deserializes it, signs again with its keypair and calls sendRawTransaction.
OpSigned(o) ==
  /\ ops[o].pc = "sign"
  /\ \E answer \in SignerAnswers :
       LET response == SignerResponse(ops[o].finalTransaction, answer)
           deserialized == Deserialize(WireOf(response))
       IN IF answer # "error" /\ CanSerialize(response) /\ CanSign(deserialized, ops[o].keypair)
            THEN ops' = [ops EXCEPT
                           ![o].pc = "send",
                           ![o].signedTransaction = response,
                           ![o].signedTx = WithSignature(deserialized, ops[o].keypair),
                           ![o].sent = <<WireOf(WithSignature(deserialized, ops[o].keypair))>>]
            ELSE ops' = [ops EXCEPT
                           ![o].pc = "done", ![o].reply = "error",
                           ![o].signedTransaction = IF answer = "error" THEN NoTx ELSE response]
  /\ UNCHANGED chainTip
  /\ OpsOnly

\* The broadcaster answers: the handler replies with the transaction id or
\* with the error.
OpSent(o) ==
  /\ ops[o].pc = "send"
  /\ \E answer \in BroadcasterAnswers(ops[o].sent[1], SendOptions("balance")) :
       ops' = [ops EXCEPT ![o].pc = "done",
                          ![o].reply = IF answer = "accepted" THEN "success" ELSE "error"]
  /\ UNCHANGED chainTip
  /\ OpsOnly

\* A new block while some handler is suspended at an await.
OpTick ==
  /\ \E o \in Ops : ops[o].pc \notin {"idle", "done"}
  /\ chainTip < MaxTip
  /\ chainTip' = chainTip + 1
  /\ UNCHANGED ops
  /\ OpsOnly

NextConcurrent ==
  \/ OpTick
  \/ \E o \in Ops : OpStart(o)
  \/ \E o \in Ops : OpBuilt(o)
  \/ \E o \in Ops : OpFetched(o)
  \/ \E o \in Ops : OpSigned(o)
  \/ \E o \in Ops : OpSent(o)

SpecConcurrent == Init /\ [][NextConcurrent]_vars

\* ------------------------------------------- the bot and its wallet mapping
\* Wallet ids of the custody service: the ones users had before the bot came
\* up, and the ones createWallet hands out, each of them new.
InitialWallet(u) == IF u = "alice" THEN "w-alice" ELSE "w-bob"

NewWalletIds == <<"w-1", "w-2">>

NewWallet(k) == NewWalletIds[k]

\* The user a wallet was made for.
OwnerOf(walletId) ==
  IF \E u \in Users : InitialWallet(u) = walletId
    THEN CHOOSE u \in Users : InitialWallet(u) = walletId
    ELSE created[IndexOf(NewWalletIds, walletId)]

\* The mapping files the bot can find when it starts.
InitialMappings ==
  {m \in [Users -> {NoWallet} \cup {InitialWallet(u) : u \in Users}] :
     \A u \in Users : m[u] \in {NoWallet, InitialWallet(u)}}

\* getAllUserWallets(): the parsed file, or {} when the file is missing or
\* reading or parsing it throws.
GetAllUserWallets == {file, EmptyMappings}

\* saveUserWallet(userId, walletId): load the mappings, set the user's entry,
\* write all of them back; a failing write is logged and nothing is stored.
SaveUserWallet(userId, walletId) ==
  \E userWallets \in GetAllUserWallets, written \in BOOLEAN :
    /\ file' = IF written THEN [userWallets EXCEPT ![userId] = walletId] ELSE file
    /\ saves' = Append(saves, [user |-> userId, walletId |-> walletId,
                               before |-> file, after |-> file'])

Call(h, name, walletId) ==
  [handler |-> h, user |-> handlers[h].user, kind |-> "call", name |-> name,
   walletId |-> walletId]

Reply(h, name) ==
  [handler |-> h, user |-> handlers[h].user, kind |-> "reply", name |-> name,
   walletId |-> NoWallet]

SigningCommands == {"createposition", "transfer", "removeliquidity"}

BotOnly ==
  UNCHANGED <<chainTip, flow, pc, builderResult, txs, txIndex, locals, trace, sent, replies,
              ops, cmd>>

\* /start arrives: the handler loads the mappings; with a wallet on file it
\* asks the custody service for its address, without one it asks for a new
\* wallet.
StartArrives(h) ==
  /\ handlers[h].pc = "idle"
  /\ \E u \in Users, userWallets \in GetAllUserWallets :
       LET started == [IdleHandler EXCEPT !.command = "start", !.user = u,
                                          !.userWallets = userWallets]
       IN IF userWallets[u] # NoWallet
            THEN /\ handlers' = [handlers EXCEPT ![h] =
                      [started EXCEPT !.walletId = userWallets[u], !.pc = "getWallet"]]
                 /\ log' = Append(log, [handler |-> h, user |-> u, kind |-> "call",
                                        name |-> "getWallet", walletId |-> userWallets[u]])
            ELSE /\ handlers' = [handlers EXCEPT ![h] = [started EXCEPT !.pc = "createWallet"]]
                 /\ log' = Append(log, [handler |-> h, user |-> u, kind |-> "call",
                                        name |-> "createWallet", walletId |-> NoWallet])
  /\ UNCHANGED <<file, saves, created>>
  /\ BotOnly

\* createWallet answers.  On success the mapping is saved and, the address
\* being known, the welcome message is sent.  On failure the catch block
\* sends the error, and the handler goes on to the second try block: the
\* address is still empty, so getWallet is called with the empty walletId.
CreateWalletReturns(h) ==
  /\ handlers[h].pc = "createWallet"
  /\ \/ LET id == NewWallet(Len(created) + 1) IN
          /\ created' = Append(created, handlers[h].user)
          /\ SaveUserWallet(handlers[h].user, id)
          /\ handlers' = [handlers EXCEPT ![h].walletId = id, ![h].walletAddress = id,
                                          ![h].pc = "done"]
          /\ log' = Append(log, Reply(h, "welcome"))
     \/ /\ handlers' = [handlers EXCEPT ![h].pc = "getWallet"]
        /\ log' = log \o <<Reply(h, "error"), Call(h, "getWallet", handlers[h].walletId)>>
        /\ UNCHANGED <<file, saves, created>>
  /\ BotOnly

\* Mutant of WalletIdFor: the first wallet of the mapping, whoever owns it.
WalletIdOfFirst(u, userWallets) ==
  userWallets[CHOOSE v \in Users : userWallets[v] # NoWallet]

\* `const walletId = userWallets[userId]` of the signing handlers.
WalletIdFor(u, userWallets) == userWallets[u]

\* A command that ends at the remote signer arrives: the handler loads the
\* mappings, replies with an error when the user has none, and otherwise
\* asks the custody service for the wallet.
SigningCommandArrives(h) ==
  /\ handlers[h].pc = "idle"
  /\ \E command \in SigningCommands, u \in Users, userWallets \in GetAllUserWallets :
       LET started == [IdleHandler EXCEPT !.command = command, !.user = u,
                                          !.userWallets = userWallets]
       IN IF userWallets[u] = NoWallet
            THEN /\ handlers' = [handlers EXCEPT ![h] = [started EXCEPT !.pc = "done"]]
                 /\ log' = Append(log, [handler |-> h, user |-> u, kind |-> "reply",
                                        name |-> "error", walletId |-> NoWallet])
            ELSE /\ handlers' = [handlers EXCEPT ![h] =
                      [started EXCEPT !.walletId = WalletIdFor(u, userWallets),
                                      !.pc = "getWallet"]]
                 /\ log' = Append(log, [handler |-> h, user |-> u, kind |-> "call",
                                        name |-> "getWallet",
                                        walletId |-> WalletIdFor(u, userWallets)])
  /\ UNCHANGED <<file, saves, created>>
  /\ BotOnly

\* getWallet answers: /start sends the welcome message or the error; the
\* other handlers build their transaction and call signTransaction with
\* their walletId, or send the error.
GetWalletReturns(h) ==
  /\ handlers[h].pc = "getWallet"
  /\ \/ /\ handlers[h].command = "start"
        /\ \E name \in {"welcome", "error"} : log' = Append(log, Reply(h, name))
        /\ handlers' = [handlers EXCEPT ![h].pc = "done"]
     \/ /\ handlers[h].command \in SigningCommands
        /\ \/ /\ log' = Append(log, Call(h, "signTransaction", handlers[h].walletId))
              /\ handlers' = [handlers EXCEPT ![h].pc = "sign",
                                              ![h].walletAddress = handlers[h].walletId]
           \/ /\ log' = Append(log, Reply(h, "error"))
              /\ handlers' = [handlers EXCEPT ![h].pc = "done"]
  /\ UNCHANGED <<file, saves, created>>
  /\ BotOnly

\* signTransaction answers: the handler submits and reports, or reports the
\* error.
SignReturns(h) ==
  /\ handlers[h].pc = "sign"
  /\ \E name \in {"success", "error"} : log' = Append(log, Reply(h, name))
  /\ handlers' = [handlers EXCEPT ![h].pc = "done"]
  /\ UNCHANGED <<file, saves, created>>
  /\ BotOnly

InitBot ==
  /\ AssemblerIdle
  /\ BotIdle
  /\ file \in InitialMappings

NextBot ==
  \/ \E h \in Handlers : StartArrives(h)
  \/ \E h \in Handlers : CreateWalletReturns(h)
  \/ \E h \in Handlers : SigningCommandArrives(h)
  \/ \E h \in Handlers : GetWalletReturns(h)
  \/ \E h \in Handlers : SignReturns(h)

SpecBot == InitBot /\ [][NextBot]_vars

\* --------------------------------------------- commands and their arguments
\* The words a user can type after a command name.
PoolAddress == "NPLipchco8sZA4jSR47dVafy77PdbpBCfqPf8Ksvsvj"

Words == {PoolAddress, "balance", "Balance", "spot", "100", "0", "-5", "500", "100abc"}

\* The capture groups of each handler's regular expression:
\* /\/createposition (.+) (.+) (.+)/ and so on.
Groups(name) == IF name \in {"createposition", "transfertoken"} THEN 3 ELSE 2

TextCommands == {"createposition", "removeliquidity", "swap", "transfertoken"}

\* RegExp.exec with greedy `(.+)` groups separated by single spaces: the last
\* groups take one word each, the first group takes all the words before.
Match(words, groups) ==
  [g \in 1..groups |->
     IF g = 1 THEN SubSeq(words, 1, Len(words) - groups + 1)
     ELSE <<words[Len(words) - groups + g]>>]

NaN == [isNaN |-> TRUE, value |-> 0]

Num(n) == [isNaN |-> FALSE, value |-> n]

\* parseFloat(group): the number the text starts with, NaN when it starts
\* with none.
ParseFloat(group) ==
  CASE group[1] \in {"100", "100abc"} -> Num(100)
    [] group[1] = "500" -> Num(500)
    [] group[1] = "0" -> Num(0)
    [] group[1] = "-5" -> Num(0 - 5)
    [] OTHER -> NaN

\* String.prototype.toLowerCase of a group.
ToLowerCase(group) ==
  [i \in 1..Len(group) |->
     CASE group[i] = "Balance" -> "balance"
       [] group[i] = PoolAddress -> "nplipchco8sza4jsr47dvafy77pdbpbcfqpf8ksvsvj"
       [] OTHER -> group[i]]

\* `new PublicKey(text)` does not throw: base58 text of 32 bytes.
IsPublicKey(group) == group = <<PoolAddress>>

PositionTypes == {<<"balance">>, <<"imbalance">>, <<"one-side">>}

\* The SOL balances the balance service can report.
Balances == {0, 100, 500}

\* The validations of each handler, in the order of the code.
Checks(name) ==
  CASE name = "createposition" -> <<"type", "pool", "amount", "wallet">>
    [] name = "removeliquidity" -> <<"percentage", "wallet">>
    [] name = "swap" -> <<"wallet", "token", "amount">>
    [] name = "transfertoken" -> <<"wallet", "params", "mint", "amount", "recipient">>

\* The argument a validation looks at.
TypeOf(c) == ToLowerCase(c.match[1])

PoolOf(c) == c.match[2]

AmountOf(c) == ParseFloat(c.match[Groups(c.name)])

TokenOf(c) == IF c.name = "swap" THEN c.match[1] ELSE c.match[2]

Passes(c, check, userWallets) ==
  CASE check = "type" -> TypeOf(c) \in PositionTypes
    [] check = "pool" -> IsPublicKey(PoolOf(c))
    [] check = "amount" -> ~AmountOf(c).isNaN /\ AmountOf(c).value > 0
    [] check = "percentage" -> ~AmountOf(c).isNaN
    [] check = "wallet" -> userWallets[c.user] # NoWallet
    [] check = "token" -> IsPublicKey(TokenOf(c))
    [] check = "params" -> ~AmountOf(c).isNaN /\ AmountOf(c).value # 0
    [] check = "mint" -> IsPublicKey(TokenOf(c))
    [] check = "recipient" -> IsPublicKey(c.match[1])

\* The failing branch ends with `return bot.sendMessage(...)`; the token-mint
\* validation of /transfertoken sends its message and does not return.
Returns(name, check) == ~(name = "transfertoken" /\ check = "mint")

CmdCall(name, arg) == [kind |-> "call", name |-> name, arg |-> arg]

CmdReply(name, text) == [kind |-> "reply", name |-> name, arg |-> text]

CmdOnly ==
  UNCHANGED <<chainTip, flow, pc, builderResult, txs, txIndex, locals, trace, sent, replies,
              ops, file, handlers, saves, created>>

\* A message matching a handler's regular expression arrives.
CommandArrives ==
  /\ cmd.pc = "idle"
  /\ \E name \in TextCommands, u \in Users :
       \E n \in Groups(name)..MaxWords :
         \E words \in [1..n -> Words] :
           cmd' = [IdleCmd EXCEPT !.name = name, !.user = u,
                                  !.match = Match(words, Groups(name)), !.pc = "validate"]
  /\ UNCHANGED log
  /\ CmdOnly

\* After a validation: the next one, or the try block, which starts with
\* `await privy.walletApi.getWallet({id: walletId})`.
Advance(c, entries) ==
  IF c.check < Len(Checks(c.name))
    THEN /\ cmd' = [c EXCEPT !.check = c.check + 1]
         /\ log' = log \o entries
    ELSE /\ cmd' = [c EXCEPT !.pc = "getWallet"]
         /\ log' = log \o entries \o <<CmdCall("getWallet", c.userWallets[c.user])>>

\* Mutant of Reject: the message is sent without `return`.
RejectAndContinue(c, check) == Advance(c, <<CmdReply("error", check)>>)

\* `return bot.sendMessage(msg.chat.id, '...')`.
Reject(c, check) ==
  /\ log' = Append(log, CmdReply("error", check))
  /\ cmd' = [c EXCEPT !.pc = "done"]

\* One validation of the handler; the wallet check loads the mappings first.
ValidateStep ==
  /\ cmd.pc = "validate"
  /\ LET check == Checks(cmd.name)[cmd.check] IN
       \E userWallets \in (IF check = "wallet" THEN GetAllUserWallets ELSE {cmd.userWallets}) :
         LET c == [cmd EXCEPT !.userWallets = userWallets] IN
           IF Passes(c, check, userWallets) THEN Advance(c, <<>>)
           ELSE IF Returns(c.name, check) THEN Reject(c, check)
           ELSE Advance(c, <<CmdReply("error", check)>>)
  /\ CmdOnly

\* Every later failure lands in the handler's catch block.
CatchError ==
  /\ log' = Append(log, CmdReply("error", "catch"))
  /\ cmd' = [cmd EXCEPT !.pc = "done"]

\* getWallet answers; each handler goes on to its next call, and
\* `new PublicKey(...)` of an argument that is no key throws on the way.
GetWalletAnswers ==
  /\ cmd.pc = "getWallet"
  /\ \/ CatchError
     \/ /\ cmd.name = "createposition"
        /\ log' = Append(log, CmdCall("builder", AmountOf(cmd).value))
        /\ cmd' = [cmd EXCEPT !.pc = "build"]
     \/ /\ cmd.name = "removeliquidity"
        /\ IF IsPublicKey(cmd.match[1])
             THEN /\ log' = Append(log, CmdCall("getAccountInfo", 0))
                  /\ cmd' = [cmd EXCEPT !.pc = "getAccountInfo"]
             ELSE CatchError
     \/ /\ cmd.name = "swap"
        /\ log' = Append(log, CmdCall("balances", 0))
        /\ cmd' = [cmd EXCEPT !.pc = "balances"]
     \/ /\ cmd.name = "transfertoken"
        /\ IF IsPublicKey(TokenOf(cmd))
             THEN /\ log' = Append(log, CmdCall("builder", AmountOf(cmd).value))
                  /\ cmd' = [cmd EXCEPT !.pc = "build"]
             ELSE CatchError
  /\ CmdOnly

\* `bps * 100`: the percentage converted to basis points for the builder.
BasisPoints(percentage) == percentage * 100

\* getAccountInfo of the position answers: no account, or the builder is
\* asked to remove the liquidity.
AccountInfoAnswers ==
  /\ cmd.pc = "getAccountInfo"
  /\ \/ CatchError
     \/ /\ log' = Append(log, CmdReply("error", "Position not found"))
        /\ cmd' = [cmd EXCEPT !.pc = "done"]
     \/ /\ log' = Append(log, CmdCall("builder", BasisPoints(AmountOf(cmd).value)))
        /\ cmd' = [cmd EXCEPT !.pc = "build"]
  /\ CmdOnly

\* Mutant of Insufficient: the balance is not compared with the amount.
InsufficientIgnored(solBalance, amount) == FALSE

\* `if (solBalance < amount)`.
Insufficient(solBalance, amount) == solBalance < amount

\* The balance service answers: /swap stops on an insufficient balance and
\* otherwise requests the order.
BalancesAnswer ==
  /\ cmd.pc = "balances"
  /\ \/ CatchError
     \/ \E solBalance \in Balances :
          IF Insufficient(solBalance, AmountOf(cmd).value)
            THEN /\ log' = Append(log, CmdReply("error", "Insufficient SOL balance"))
                 /\ cmd' = [cmd EXCEPT !.pc = "done", !.solBalance = solBalance]
            ELSE /\ log' = Append(log, CmdCall("order", AmountOf(cmd).value))
                 /\ cmd' = [cmd EXCEPT !.pc = "build", !.solBalance = solBalance]
  /\ CmdOnly

\* The builder (the order service for /swap) answers with a transaction: the
\* handler calls the remote signer.
BuilderAnswers ==
  /\ cmd.pc = "build"
  /\ \/ CatchError
     \/ /\ log' = Append(log, CmdCall("signTransaction", cmd.userWallets[cmd.user]))
        /\ cmd' = [cmd EXCEPT !.pc = "sign"]
  /\ CmdOnly

\* The remote signer answers: the handler submits the signed transaction
\* (/swap: tells the user, then executes the order).
SignAnswers ==
  /\ cmd.pc = "sign"
  /\ \/ CatchError
     \/ /\ log' = log \o (IF cmd.name = "swap"
                               THEN <<CmdReply("info", "Transaction signed"),
                                      CmdCall("execute", 0)>>
                               ELSE <<CmdCall("sendRawTransaction", 0)>>)
        /\ cmd' = [cmd EXCEPT !.pc = "send", !.signed = TRUE]
  /\ CmdOnly

\* The broadcaster (the order service for /swap) answers.
SubmitAnswers ==
  /\ cmd.pc = "send"
  /\ \/ CatchError
     \/ /\ log' = Append(log, CmdReply("success", "ok"))
        /\ cmd' = [cmd EXCEPT !.pc = "done"]
  /\ CmdOnly

InitCommands ==
  /\ AssemblerIdle
  /\ BotIdle
  /\ file \in InitialMappings

NextCommands ==
  \/ CommandArrives
  \/ ValidateStep
  \/ GetWalletAnswers
  \/ AccountInfoAnswers
  \/ BalancesAnswer
  \/ BuilderAnswers
  \/ SignAnswers
  \/ SubmitAnswers

SpecCommands == InitCommands /\ [][NextCommands]_vars

\* ================================================================== claims
Last(seq) == seq[Len(seq)]

SentTx(i) == Deserialize(sent[i].wire)

NetworkCalls == {"getLatestBlockhash", "signTransaction", "sendRawTransaction"}

\* C1: a position-creation flow never calls submit on a transaction that
\* lacks the signature of a required signer (the wallet or the co-signer).
C1_SubmitOnlyFullySigned ==
  flow \in CreateFlows => \A i \in 1..Len(sent) : FullySigned(SentTx(i))

\* C2: once a versioned template has gone through the rebuild, the rebuilt
\* transaction exists and has the template's instructions: same number, same
\* order, same program id and payload each.
C2_RebuildKeepsInstructions ==
  (/\ Len(trace) > 0
   /\ Last(trace).call = "rebuild"
   /\ txs[txIndex].kind = "VersionedTransaction")
  => /\ Last(trace).ok
     /\ ProgramsAndData(finalTransaction.message) = ProgramsAndData(txs[txIndex].message)

\* C3: every transaction a position flow submits carries a blockhash that a
\* getLatestBlockhash call of the same operation returned for that template.
C3_SubmittedBlockhashWasFetched ==
  \A i \in 1..Len(sent) :
    \E j \in 1..Len(trace) :
      /\ trace[j].call = "getLatestBlockhash"
      /\ trace[j].ok
      /\ trace[j].template = sent[i].template
      /\ trace[j].blockhash = BlockhashOf(SentTx(i))

\* C4: in a position-creation flow of any type the remote signer is called
\* only after the co-signer has signed, which is only after the blockhash
\* fetch.
C4_FetchThenLocalThenRemote ==
  flow \in CreateFlows =>
    \A j \in 1..Len(trace) :
      trace[j].call = "signTransaction" =>
        \E i \in 1..(j - 1) :
          /\ trace[i].call = "localSign"
          /\ trace[i].ok
          /\ \E h \in 1..(i - 1) : trace[h].call = "getLatestBlockhash" /\ trace[h].ok

\* C5: on the path that detects the template's shape, a template that arrives
\* as a pre-serialized string causes no network call: no getLatestBlockhash,
\* no signTransaction, no sendRawTransaction.
C5_StringTemplateNoNetworkCall ==
  (flow \in RebuildFlows /\ Len(txs) > 0 /\ txs[txIndex].kind = "string")
  => \A j \in 1..Len(trace) : trace[j].call \notin NetworkCalls

\* C6: a failed getLatestBlockhash is the last step of the operation: the
\* failure is reported to the caller, and the remote signer and submit are
\* not called for that template, neither before nor after.
C6_FetchFailureStopsOperation ==
  \A j \in 1..Len(trace) :
    (trace[j].call = "getLatestBlockhash" /\ ~trace[j].ok) =>
      /\ j = Len(trace)
      /\ pc = "done"
      /\ Len(replies) = 1
      /\ Last(replies) = [kind |-> "error", text |-> "getLatestBlockhash failed"]
      /\ \A k \in 1..Len(trace) :
           trace[k].template = trace[j].template =>
             trace[k].call \notin {"signTransaction", "sendRawTransaction"}

C6_Witness ==
  /\ Len(trace) > 0
  /\ Last(trace).call = "getLatestBlockhash"
  /\ ~Last(trace).ok
  /\ pc = "done"

\* The co-signer signed a legacy transaction, and the remote signer returned
\* it with the wallet's signature and without the co-signer's.
LossyLegacyResponse ==
  /\ flow = "balance"
  /\ Position \in SignedBy(finalTransaction)
  /\ signedTransaction.kind = "Transaction"
  /\ Position \in Range(RequiredSigners(signedTransaction))
  /\ SignedBy(signedTransaction) = {Wallet}

\* C7: after a lossy legacy response the operation does not end before
\* submit: the co-signer's signature is re-applied and the transaction is
\* submitted with both signatures.
C7_LossyLegacyReachesSubmit ==
  (LossyLegacyResponse /\ pc = "done")
  => /\ Len(sent) = 1
     /\ SignedBy(SentTx(1)) = {Wallet, Position}

\* C8: a rejected submit is the last step of the command: it is reported to
\* the caller as it came, no fetch, signing or submit follows it, and no
\* template is submitted twice.
C8_RejectionNotRetried ==
  /\ \A i \in 1..Len(sent) :
       sent[i].answer # "accepted" =>
         /\ i = Len(sent)
         /\ pc = "done"
         /\ Last(trace).call = "sendRawTransaction"
         /\ Last(replies) = [kind |-> "error", text |-> sent[i].answer]
  /\ \A i, k \in 1..Len(sent) : sent[i].template = sent[k].template => i = k

C8_Witness ==
  /\ Len(sent) > 0
  /\ Last(sent).answer \in {"simulation failed", "signature verification failure"}
  /\ pc = "done"

StaleRejection(i) == sent[i].answer = "blockhash not found"

\* C9 as stated: a submit rejected for a stale blockhash is followed by
\* another submit with a newer blockhash before the command ends.
C9_StaleRetried ==
  \A i \in 1..Len(sent) :
    (StaleRejection(i) /\ pc = "done") =>
      \E k \in (i + 1)..Len(sent) : BlockhashOf(SentTx(k)) > BlockhashOf(SentTx(i))

\* C9 as amended: a submit rejected for a stale blockhash is not retried; the
\* command ends with that rejection as its error, with no blockhash fetched
\* after the one the rejected transaction carried and no further submit.
C9_StaleNotRetried ==
  \A i \in 1..Len(sent) :
    StaleRejection(i) =>
      /\ pc = "done"
      /\ Last(replies).kind = "error"
      /\ Last(replies).text = "blockhash not found"
      /\ \A k \in 1..Len(sent) : k <= i
      /\ \A j \in 1..Len(trace) :
           (trace[j].call = "getLatestBlockhash" /\ trace[j].template = sent[i].template)
             => trace[j].blockhash <= BlockhashOf(SentTx(i))

C9_Witness ==
  /\ flow = "balance"
  /\ Len(sent) = 1
  /\ StaleRejection(1)
  /\ blockhash = BlockhashOf(SentTx(1))
  /\ pc = "done"

\* C10: a command that ends in success has submitted every template of the
\* builder's array, in the builder's order.
C10_AllTemplatesSubmitted ==
  (pc = "done" /\ Len(replies) > 0 /\ Last(replies).kind = "success")
  => /\ Len(sent) = Len(builderResult)
     /\ \A i \in 1..Len(sent) :
          ProgramsAndData(SentTx(i).message)
            = ProgramsAndData(MessageOf(builderResult[i]))

\* ------------------------------------------------------------------ C11..
ShapeErrors ==
  {"Transaction already serialized to base64 by Meteora SDK", "Unknown transaction type"}

Unrecognised(transaction) == transaction.kind \notin {"Transaction", "VersionedTransaction"}

Calls(call, t) ==
  {j \in 1..Len(trace) : trace[j].call = call /\ trace[j].template = t}

FeePayerOf(tx) == MessageOf(tx).staticAccountKeys[1]

\* C13: on the fetch / rebuild path the transaction about to be handed to the
\* remote signer has the wallet's address as its fee payer, whatever the
\* template's shape and fee payer.
C13_FeePayerIsWallet ==
  (flow \in RebuildFlows /\ pc = "sign") => FeePayerOf(SignerInput) = Wallet

\* The versioned template at hand has just been rebuilt.
VersionedRebuilt ==
  /\ Len(trace) > 0
  /\ Last(trace).call = "rebuild"
  /\ Last(trace).ok
  /\ txs[txIndex].kind = "VersionedTransaction"

\* C14: every account reference of an instruction rebuilt from a versioned
\* template has the signer flag and the writable flag the account has in the
\* template's message.
C14_FlagsPreserved ==
  VersionedRebuilt =>
    LET message == txs[txIndex].message
        extracted == ExtractInstructions(message)
        rebuilt == RebuildInstructions(message, extracted)
    IN \A i \in 1..Len(rebuilt) :
         \A j \in 1..Len(rebuilt[i].keys) :
           /\ rebuilt[i].keys[j].isSigner
                = IsSignerIndex(message, extracted[i].accountKeyIndexes[j])
           /\ rebuilt[i].keys[j].isWritable
                = IsWritableIndex(message, extracted[i].accountKeyIndexes[j])

\* The template at hand is a versioned one that names the position key as a
\* required signer, in a flow that rebuilds it and co-signs the result.
CoSignedVersionedTemplate ==
  /\ flow \in CreateFlows \cap RebuildFlows
  /\ Len(txs) > 0
  /\ txs[txIndex].kind = "VersionedTransaction"
  /\ Position \in Range(RequiredSigners(txs[txIndex]))

\* C15: for a versioned template in which the co-signer is a required signer,
\* the co-signer is a required signer of the rebuilt message too, its local
\* signature succeeds, and the operation goes on to the remote signer.
C15_CoSignerStillRequired ==
  CoSignedVersionedTemplate =>
    /\ pc = "cosign" => CanSign(finalTransaction, Position)
    /\ \A j \in 1..Len(trace) : trace[j].call = "localSign" => trace[j].ok

\* The handler has serialized the signer's response, deserialized it and
\* signed it again with the position keypair.
ReSigned == flow \in CreateFlows /\ signedTx # NoTx

FlowSteps ==
  {"detectShape", "rebuild", "getLatestBlockhash", "localSign", "signTransaction",
   "serialize", "sendRawTransaction"}

FailedSteps == {j \in 1..Len(trace) : trace[j].call \in FlowSteps /\ ~trace[j].ok}

\* C17: no failure of the sign-and-send flow is swallowed: once shape
\* detection, the blockhash fetch, a local signature, the remote signature or
\* the submit has failed, the operation is over, the caller has been given an
\* error, and the caller is never given a success.
C17_NoFailureSwallowed ==
  FailedSteps # {} =>
    /\ FailedSteps = {Len(trace)}
    /\ pc = "done"
    /\ replies # <<>>
    /\ \A r \in 1..Len(replies) : replies[r].kind = "error"

C17_Witness ==
  /\ FailedSteps # {}
  /\ Last(trace).call = "signTransaction"
  /\ Last(replies).kind = "error"

\* The failures that stop the operation on a template before its submit.
StoppedBeforeSubmit ==
  {j \in FailedSteps : trace[j].call # "sendRawTransaction"}

\* C18: nothing irreversible happens before submit: when the operation on a
\* template stops at a step before submit (shape error, fetch error, local
\* or remote signing error), sendRawTransaction has not been called for that
\* template, and the handler is over, so it is not called afterwards either.
C18_NoSubmitAfterEarlyStop ==
  \A j \in StoppedBeforeSubmit :
    /\ Calls("sendRawTransaction", trace[j].template) = {}
    /\ \A i \in 1..Len(sent) : sent[i].template # trace[j].template
    /\ pc = "done"

C18_Witness ==
  /\ StoppedBeforeSubmit # {}
  /\ flow \in CreateFlows
  /\ Last(trace).call = "localSign"
  /\ pc = "done"

\* C20: every submit of a dual-signed position-creation transaction is made
\* with skipPreflight = false.
C20_CreationSubmitsWithPreflight ==
  flow \in CreateFlows => \A i \in 1..Len(sent) : sent[i].skipPreflight = FALSE

C20_Witness ==
  /\ flow \in CreateFlows
  /\ sent # <<>>
  /\ SignedBy(SentTx(1)) = {Wallet, Position}
  /\ ~sent[1].skipPreflight

\* Every transaction object a handler holds or has submitted.
OpTransactions(o) ==
  ({ops[o].finalTransaction, ops[o].signedTransaction, ops[o].signedTx}
     \cup {Deserialize(ops[o].sent[i]) : i \in 1..Len(ops[o].sent)}) \ {NoTx}

\* C19: two position-creation operations running side by side share nothing:
\* each has a keypair of its own; whatever a handler signs or submits carries
\* the blockhash that handler fetched, signatures of the wallet and of the
\* handler's own keypair only, each over the handler's own message, and does
\* not name the other handler's position key; what a handler hands to the
\* remote signer and what it submits is signed by its own keypair; what it
\* submits has the instructions of its own template.
C19_OperationsIsolated ==
  \A o \in Ops : \A p \in Ops \ {o} :
    /\ ops[o].keypair # NoKey => ops[o].keypair # ops[p].keypair
    /\ \A tx \in OpTransactions(o) :
         /\ BlockhashOf(tx) = ops[o].blockhash
         /\ \A i \in 1..Len(tx.signatures) :
              tx.signatures[i] # ZeroSignature =>
                /\ tx.signatures[i].signer \in {Wallet, ops[o].keypair}
                /\ tx.signatures[i].over = Digest(MessageOf(tx))
         /\ ops[p].keypair = NoKey \/ ops[p].keypair \notin Range(MessageOf(tx).staticAccountKeys)
    /\ \A tx \in OpTransactions(o) \ {ops[o].signedTransaction} :
         ops[o].keypair \in SignedBy(tx)
    /\ \A i \in 1..Len(ops[o].sent) :
         ProgramsAndData(Deserialize(ops[o].sent[i]).message)
           = ProgramsAndData(MessageOf(ops[o].transaction))

\* Both handlers are in flight with different blockhashes, one waiting for
\* the broadcaster and the other for the remote signer.
C19_Witness ==
  /\ ops[1].pc = "send"
  /\ ops[2].pc = "sign"
  /\ ops[1].blockhash # ops[2].blockhash
  /\ SignedBy(ops[1].signedTx) = {Wallet, ops[1].keypair}
  /\ ops[2].keypair \in SignedBy(ops[2].finalTransaction)

\* The createWallet calls made for a user.
CreateWalletCalls(u) ==
  {i \in 1..Len(log) : log[i].name = "createWallet" /\ log[i].user = u}

\* C21: /start creates a wallet only for a user who has none: createWallet
\* is called at most once per user, and a stored mapping userId -> walletId
\* is never replaced by a different walletId.
C21_OneWalletPerUser ==
  /\ \A u \in Users : Cardinality(CreateWalletCalls(u)) <= 1
  /\ \A i \in 1..Len(saves) :
       saves[i].before[saves[i].user] \in {NoWallet, saves[i].after[saves[i].user]}

\* The command as the welcome message documents it:
\* /createposition <pool> <type> <amount>.
DocumentedForm(c) ==
  /\ c.name = "createposition"
  /\ IsPublicKey(c.match[1])
  /\ ToLowerCase(c.match[2]) \in PositionTypes
  /\ ~ParseFloat(c.match[3]).isNaN /\ ParseFloat(c.match[3]).value > 0

ValidationErrors(checks) ==
  {i \in 1..Len(log) : log[i].kind = "reply" /\ log[i].name = "error" /\ log[i].arg \in checks}

\* C22: a /createposition command in the documented form (pool address, type,
\* amount) passes the handler's type, pool-address and amount validation.
C22_DocumentedFormPasses ==
  DocumentedForm(cmd) => ValidationErrors({"type", "pool", "amount"}) = {}

BuilderCalls == {i \in 1..Len(log) : log[i].kind = "call" /\ log[i].name = "builder"}

\* C23: /removeliquidity passes on a percentage between 1 and 100: the
\* builder is asked for 100 to 10000 basis points only, and a command with
\* any other percentage gets the 'Invalid percentage' reply and no builder
\* call.
C23_PercentageInRange ==
  cmd.name = "removeliquidity" =>
    /\ \A i \in BuilderCalls : log[i].arg >= 100 /\ log[i].arg <= 10000
    /\ (cmd.pc = "done" /\ ~(~AmountOf(cmd).isNaN /\ AmountOf(cmd).value \in 1..100)) =>
         /\ BuilderCalls = {}
         /\ ValidationErrors({"percentage"}) # {}

SignerCalls == {i \in 1..Len(log) : log[i].kind = "call" /\ log[i].name = "signTransaction"}

\* C24: the walletId a handler gives to the remote signer is the one the
\* mapping held for the user who sent the command when the handler loaded it,
\* and it is that user's wallet: under no interleaving of commands does the
\* signer sign with a wallet made for another user.
C24_SignsWithOwnWallet ==
  \A i \in SignerCalls :
    /\ log[i].user = handlers[log[i].handler].user
    /\ log[i].walletId = handlers[log[i].handler].userWallets[log[i].user]
    /\ log[i].walletId # NoWallet
    /\ OwnerOf(log[i].walletId) = log[i].user

\* Two handlers of different users are both waiting for the remote signer.
C24_Witness ==
  /\ handlers[1].pc = "sign"
  /\ handlers[2].pc = "sign"
  /\ handlers[1].user # handlers[2].user
  /\ Cardinality(SignerCalls) = 2

\* C25: saveUserWallet(userId, walletId) changes the entry of userId only:
\* every other user's stored mapping is the same after the call as before
\* it, also when reading or parsing the file fails during the call.
C25_SaveKeepsOtherEntries ==
  \A i \in 1..Len(saves) :
    \A u \in Users \ {saves[i].user} : saves[i].after[u] = saves[i].before[u]

RemoveLiquidityFlows == {"removeliquidity", "cli-removeLiquidity"}

Accepted == {i \in 1..Len(sent) : sent[i].answer = "accepted"}

\* C26: when removing liquidity ends with an error, no transaction of the
\* command has been submitted: either every template the builder returned is
\* on chain and the command reports success, or none is.
C26_AllOrNothing ==
  (flow \in RemoveLiquidityFlows /\ pc = "done" /\ replies # <<>>) =>
    IF Last(replies).kind = "error"
      THEN Accepted = {}
      ELSE {sent[i].template : i \in Accepted} = 1..Len(txs)

ErrorReplies == {i \in 1..Len(log) : log[i].kind = "reply" /\ log[i].name = "error"}

\* C27: once a handler has sent an error reply for its command it makes no
\* further external call and sends no further reply.
C27_ErrorReplyIsLast ==
  \A i \in ErrorReplies :
    \A j \in (i + 1)..Len(log) : log[j].handler # log[i].handler

\* The validations of the command that its arguments, or the mappings the
\* handler loaded, do not pass.
FailedChecks(c) ==
  {k \in 1..Len(Checks(c.name)) : ~Passes(c, Checks(c.name)[k], c.userWallets)}

Validated(c) == c.pc \notin {"idle", "validate"}

\* C28: a /createposition command that fails validation (position type, pool
\* address, amount, wallet) gets exactly one error reply, the one of the first
\* validation it fails, and causes no call; and nothing is called or sent
\* while the validations run.
C28_InvalidCreatePositionRepliesOnce ==
  cmd.name = "createposition" =>
    /\ cmd.pc = "validate" => log = <<>>
    /\ (Validated(cmd) /\ FailedChecks(cmd) # {}) =>
         /\ cmd.pc = "done"
         /\ log = <<CmdReply("error",
                             Checks(cmd.name)[CHOOSE k \in FailedChecks(cmd) :
                                                \A l \in FailedChecks(cmd) : k <= l])>>

\* A /createposition of a user without a wallet, with valid arguments, has
\* been answered.
C28_Witness ==
  /\ cmd.name = "createposition"
  /\ cmd.pc = "done"
  /\ FailedChecks(cmd) = {4}
  /\ log = <<CmdReply("error", "wallet")>>

CmdCalls(names) == {i \in 1..Len(log) : log[i].kind = "call" /\ log[i].name \in names}

\* C29: /swap requests an order and calls the remote signer only for a user
\* with a wallet, a valid token address, an amount greater than 0 and a
\* reported SOL balance of at least the amount; and it executes the order only
\* after the remote signer has answered its call with the signed transaction.
C29_SwapGuards ==
  cmd.name = "swap" =>
    /\ CmdCalls({"order", "signTransaction"}) # {} =>
         /\ cmd.userWallets[cmd.user] # NoWallet
         /\ IsPublicKey(TokenOf(cmd))
         /\ ~AmountOf(cmd).isNaN
         /\ AmountOf(cmd).value > 0
         /\ cmd.solBalance >= AmountOf(cmd).value
    /\ \A i \in CmdCalls({"signTransaction"}) : \E j \in CmdCalls({"order"}) : j < i
    /\ \A i \in CmdCalls({"execute"}) :
         /\ cmd.signed
         /\ \E j \in CmdCalls({"signTransaction"}) : j < i

\* A swap of 100 with a reported balance of 100 has been executed.
C29_Witness ==
  /\ cmd.name = "swap"
  /\ cmd.pc = "done"
  /\ cmd.solBalance = 100
  /\ AmountOf(cmd).value = 100
  /\ CmdCalls({"execute"}) # {}
  /\ Last(log) = CmdReply("success", "ok")

====
